---- MODULE Spec2Model ----
(***************************************************************************)
(* A model of the notebook lab_emnist_partial.ipynb.                       *)
(*                                                                         *)
(* Two parts of the notebook carry behaviour:                              *)
(*   - the download cell (download_file and the files_exists check that    *)
(*     follows it), modelled step by step under the specification Spec;    *)
(*   - the data pipeline (load_emnist, the removal of letters, the         *)
(*     sub-sampling, the digit/letter combination, the train/test          *)
(*     combination and the predefined split), modelled under SpecData.     *)
(***************************************************************************)
EXTENDS Integers, Sequences, FiniteSets, TLC

VARIABLES
    \* ---- file system ----
    dirExists,      \* os.path.exists('matlab')
    digitsExists,   \* os.path.exists('matlab/emnist-digits.mat')
    lettersExists,  \* os.path.exists('matlab/emnist-letters.mat')
    zip,            \* matlab.zip: NoFile or File(chunks written, complete archive)
    \* ---- kernel (names that survive from one run of the cell to the next) ----
    files_exists,   \* "unbound", "True" or "False"
    \* ---- one run of the download cell ----
    pc,             \* position in the cell
    header,         \* the response's content-length header: a digit string, NoHeader if absent
    body,           \* length of the body the server holds for src_url
    total_size,     \* local of download_file
    wrote,          \* local of download_file
    pbar,           \* number of pbar.update(1) calls
    out,            \* what the cell printed in this run
    err,            \* the exception that ended the run, "none" if none
    \* ---- history of the run, read by the properties only ----
    fresh,          \* files_exists was unbound when this run started
    missing0,       \* a .mat file was missing when this run started
    branch,         \* which branch download_file took in this run
    partial,        \* matlab.zip was left short of content-length, with the error printed
    \* ---- data pipeline ----
    dpc,            \* position in the pipeline
    mats,           \* the two MATLAB files, as scipy.io.loadmat returns them
    env             \* the notebook's arrays, by name

dlVars == <<dirExists, digitsExists, lettersExists, zip, files_exists, pc, header, body,
            total_size, wrote, pbar, out, err, fresh, missing0, branch, partial>>
dataVars == <<dpc, mats, env>>
vars == <<dlVars, dataVars>>

----------------------------------------------------------------------------
(* Bounds *)

\* the longest stream of chunks a response delivers
MaxChunks == 2

----------------------------------------------------------------------------
(* Helpers *)

RECURSIVE Sum(_)
Sum(s) == IF s = <<>> THEN 0 ELSE Head(s) + Sum(Tail(s))

Range(s) == {s[i] : i \in DOMAIN s}

----------------------------------------------------------------------------
(* download_file *)

block_size == 1024

\* matlab.zip when it is not on disk
NoFile == [exists |-> FALSE, chunks |-> <<>>, ok |-> FALSE]
\* a response without a content-length header
NoHeader == <<>>

\* the file dst_fn holding the chunks written so far; ok: it is the complete archive
File(chunks, ok) == [exists |-> TRUE, chunks |-> chunks, ok |-> ok]

\* iter_content(block_size) yields chunks of at most block_size bytes; a chunk is
\* represented by its length.
ChunkLens == {1, block_size}

RECURSIVE SeqsUpTo(_, _)
SeqsUpTo(S, n) ==
    IF n = 0 THEN {<<>>}
    ELSE LET shorter == SeqsUpTo(S, n - 1)
         IN shorter \cup {Append(s, x) : s \in {t \in shorter : Len(t) = n - 1}, x \in S}

\* the body lengths a stream of at most MaxChunks chunks can deliver in full
SizeVals == {Sum(s) : s \in SeqsUpTo(ChunkLens, MaxChunks)}

\* str(n) for n >= 0, as the sequence of its decimal digits
RECURSIVE Digits(_)
Digits(n) == IF n < 10 THEN <<n>> ELSE Append(Digits(n \div 10), n % 10)

\* int(s) for a string of decimal digits
RECURSIVE int(_)
int(s) == IF Len(s) = 1 THEN s[1] ELSE 10 * int(SubSeq(s, 1, Len(s) - 1)) + s[Len(s)]

HeaderVals == {NoHeader} \cup {Digits(n) : n \in SizeVals}

\* r.headers.get('content-length', 0)
headers_get(h) == IF h = NoHeader THEN 0 ELSE int(h)

len(data) == data

MsgExists == "File matlab.zip already exists"
MsgDownloading == "Downloading matlab.zip"
MsgError == "ERROR, something went wrong"
MsgAlready == "Files already downloaded"
MsgUnzipping == "Unzipping matlab.zip..."
MsgUnzipped == "Unzip completed"

\* the download check without its guard on a zero total_size
DownloadCheckNoZeroGuard(ts, w) == w # ts
\* the condition of the single download check
DownloadCheck(ts, w) == ts # 0 /\ w # ts

\* download_file without its early return
ExistsCheckSkipped(z) == FALSE
\* os.path.exists(dst_fn) at the head of download_file
DstExists(z) == z.exists

Finished == pc \in {"idle", "done", "error"}

\* The cell is run (again): the locals of the previous run are gone, the kernel's
\* names and the file system stay.
RunCell ==
    /\ Finished
    /\ pc' = "check"
    /\ out' = <<>>
    /\ err' = "none"
    /\ branch' = "none"
    /\ header' = NoHeader
    /\ body' = 0
    /\ total_size' = 0
    /\ wrote' = 0
    /\ pbar' = 0
    /\ fresh' = (files_exists = "unbound")
    /\ missing0' = ~(digitsExists /\ lettersExists)
    /\ UNCHANGED <<dirExists, digitsExists, lettersExists, zip, files_exists, partial, dataVars>>

\* The kernel is restarted: every name is unbound again.
RestartKernel ==
    /\ Finished
    /\ files_exists # "unbound"
    /\ files_exists' = "unbound"
    /\ pc' = "idle"
    /\ UNCHANGED <<dirExists, digitsExists, lettersExists, zip, header, body, total_size, wrote,
                   pbar, out, err, fresh, missing0, branch, partial, dataVars>>

\* if os.path.exists(matlab_dir): if both files exist: files_exists = True
\* else: files_exists = False
CheckFiles ==
    /\ pc = "check"
    /\ IF dirExists
       THEN IF digitsExists /\ lettersExists
            THEN /\ out' = Append(out, MsgAlready)
                 /\ files_exists' = "True"
            ELSE UNCHANGED <<out, files_exists>>
       ELSE /\ files_exists' = "False"
            /\ UNCHANGED out
    /\ pc' = "test"
    /\ UNCHANGED <<dirExists, digitsExists, lettersExists, zip, header, body, total_size, wrote,
                   pbar, err, fresh, missing0, branch, partial, dataVars>>

\* if not files_exists:
TestFiles ==
    /\ pc = "test"
    /\ CASE files_exists = "unbound" -> pc' = "error" /\ err' = "NameError"
         [] files_exists = "False"   -> pc' = "call" /\ err' = err
         [] files_exists = "True"    -> pc' = "done" /\ err' = err
    /\ UNCHANGED <<dirExists, digitsExists, lettersExists, zip, files_exists, header, body,
                   total_size, wrote, pbar, out, fresh, missing0, branch, partial,
                   dataVars>>

\* download_file(src_url, dst_fn) up to the start of the streaming loop
DownloadCall ==
    /\ pc = "call"
    /\ IF DstExists(zip)
       THEN /\ out' = Append(out, MsgExists)
            /\ branch' = "exists"
            /\ pc' = "unzip"
            /\ UNCHANGED <<zip, header, body, total_size, wrote, pbar>>
       ELSE /\ out' = Append(out, MsgDownloading)
            /\ branch' = "download"
            /\ \E h \in HeaderVals, b \in SizeVals \ {0} :
                 /\ header' = h
                 /\ body' = b
                 /\ total_size' = headers_get(h)
            /\ wrote' = 0
            /\ pbar' = 0
            /\ zip' = File(<<>>, FALSE)      \* open(dst_fn, 'wb')
            /\ pc' = "stream"
    /\ UNCHANGED <<dirExists, digitsExists, lettersExists, files_exists, err, fresh, missing0,
                   partial, dataVars>>

\* one turn of: for data in r.iter_content(block_size)
StreamChunk ==
    /\ pc = "stream"
    /\ Len(zip.chunks) < MaxChunks
    /\ \E data \in ChunkLens :
         /\ wrote + len(data) <= body
         /\ wrote' = wrote + len(data)
         /\ pbar' = pbar + 1
         /\ zip' = File(Append(zip.chunks, data), FALSE)   \* f.write(data)
    /\ UNCHANGED <<dirExists, digitsExists, lettersExists, files_exists, pc, header, body,
                   total_size, out, err, fresh, missing0, branch, partial, dataVars>>

\* the stream ends (at the end of the body, or earlier when the connection is cut
\* without an exception); the file is closed and the download check runs
StreamEnd ==
    /\ pc = "stream"
    /\ zip' = File(zip.chunks, wrote = body)
    /\ IF DownloadCheck(total_size, wrote)
       THEN /\ out' = Append(out, MsgError)
            /\ partial' = (wrote < total_size)
       ELSE /\ UNCHANGED out
            /\ partial' = FALSE
    /\ pc' = "unzip"
    /\ UNCHANGED <<dirExists, digitsExists, lettersExists, files_exists, header, body, total_size,
                   wrote, pbar, err, fresh, missing0, branch, dataVars>>

\* the stream raises (requests.exceptions.RequestException): the exception leaves
\* download_file and the cell, the file keeps what was written
StreamFail ==
    /\ pc = "stream"
    /\ wrote < body
    /\ pc' = "error"
    /\ err' = "RequestException"
    /\ UNCHANGED <<dirExists, digitsExists, lettersExists, zip, files_exists, header, body,
                   total_size, wrote, pbar, out, fresh, missing0, branch, partial,
                   dataVars>>

\* zipfile.ZipFile(dst_fn, 'r'); extractall('.'); close()
Unzip ==
    /\ pc = "unzip"
    /\ IF zip.ok
       THEN /\ out' = out \o <<MsgUnzipping, MsgUnzipped>>
            /\ dirExists' = TRUE
            /\ digitsExists' = TRUE
            /\ lettersExists' = TRUE
            /\ pc' = "done"
            /\ UNCHANGED err
       ELSE /\ out' = Append(out, MsgUnzipping)
            /\ pc' = "error"
            /\ err' = "BadZipFile"
            /\ UNCHANGED <<dirExists, digitsExists, lettersExists>>
    /\ UNCHANGED <<zip, files_exists, header, body, total_size, wrote, pbar, fresh, missing0,
                   branch, partial, dataVars>>

----------------------------------------------------------------------------
(* The data pipeline *)

\* ntr_dig and nts_dig (5000 in the notebook), scaled down
NDig == 2
\* ntr_let and nts_let (1000 in the notebook), scaled down
NLet == 1

ntr_dig == NDig
ntr_let == NLet
nts_dig == NDig
nts_let == NLet

\* A row of an image matrix: where the image comes from (file, sub-record, row) and
\* one pixel of it.
Image(src, split, k) == [src |-> src, split |-> split, k |-> k, px |-> 255 * (k % 2)]

NumClasses(src) == IF src = "dig" THEN 10 ELSE 26

\* The sub-record `split` of a file: n images and a column vector (one row per
\* label) of n + extra labels, the labels running through the file's classes from `off`.
SubRecord(src, split, n, off, extra) ==
    << [k \in 1..n |-> Image(src, split, k)],
       [k \in 1..(n + extra) |-> << (off + k - 1) % NumClasses(src) >>] >>

\* What scipy.io.loadmat returns for a file: dataset[1] is the training
\* sub-record, dataset[2] the test sub-record.
MatFile(src, ntr, nts, off, extra) ==
    [dataset |-> << SubRecord(src, "tr", ntr, off, extra),
                    SubRecord(src, "ts", nts, off + ntr, 0) >>]

\* mat['dataset'][0][0][k][0][0][f], k and f counted from 0 as in the notebook
Field(mat, k, f) == mat.dataset[k + 1][f + 1]

Size(col) == Sum([i \in DOMAIN col |-> Len(col[i])])

\* a[:].reshape(n).astype(int); reshape raises when a does not hold n values
CanReshape(col, n) == Size(col) = n
reshape(col, n) == [i \in 1..n |-> col[i][1]]

ValueError == <<"ValueError">>

\* load_emnist reading the training data from the test sub-record and back
load_emnist_swapped(mat) ==
    LET Xtr == Field(mat, 1, 0)
        Xts == Field(mat, 0, 0)
    IN  IF ~CanReshape(Field(mat, 1, 1), Len(Xtr)) \/ ~CanReshape(Field(mat, 0, 1), Len(Xts))
        THEN ValueError
        ELSE << Xtr, Xts, reshape(Field(mat, 1, 1), Len(Xtr)), reshape(Field(mat, 0, 1), Len(Xts)) >>

load_emnist(mat) ==
    LET Xtr == Field(mat, 0, 0)
        ntr == Len(Xtr)
        Xts == Field(mat, 1, 0)
        nts == Len(Xts)
    IN  IF ~CanReshape(Field(mat, 0, 1), ntr) \/ ~CanReshape(Field(mat, 1, 1), nts)
        THEN ValueError
        ELSE << Xtr, Xts, reshape(Field(mat, 0, 1), ntr), reshape(Field(mat, 1, 1), nts) >>

\* the notebook's namespace with the names of `r` bound
Bind(e, r) == r @@ e

remove_list == {9, 12, 15}

\* the positions of y whose label is not in remove_list, in order
RECURSIVE KeptFrom(_, _)
KeptFrom(y, i) ==
    IF i > Len(y) THEN <<>>
    ELSE IF y[i] \in remove_list THEN KeptFrom(y, i + 1)
         ELSE <<i>> \o KeptFrom(y, i + 1)

Kept(y) == KeptFrom(y, 1)

\* a[I] for a sequence of positions I
Take(a, I) == [j \in 1..Len(I) |-> a[I[j]]]

\* the ways of selecting n random samples out of m, without repetition
Selections(m, n) == {I \in [1..n -> 1..m] : \A a, b \in 1..n : a # b => I[a] # I[b]}

\* np.vstack((A, B)), np.hstack((a, b))
vstack(A, B) == A \o B
hstack(a, b) == a \o b

\* the label the letters are given in the combined vector: ytr[i] = 10
LetterClass == 10

\* the combination with the letters keeping their own labels
LettersKeepLabels(ydig, ylet) == hstack(ydig, ylet)
CombineLabels(ydig, ylet) == hstack(ydig, [i \in 1..Len(ylet) |-> LetterClass])

\* pixel values 0 and 255 rescaled to -1 and 1
Rescale(X) == [i \in 1..Len(X) |-> [X[i] EXCEPT !.px = (2 * X[i].px) \div 255 - 1]]

\* test_fold with the two values exchanged
TestFoldSwapped(ntr, nts) == [i \in 1..(ntr + nts) |-> IF i <= ntr THEN 0 ELSE -1]
\* test_fold[i] = -1 for the training samples, 0 for the test samples
TestFold(ntr, nts) == [i \in 1..(ntr + nts) |-> IF i <= ntr THEN -1 ELSE 0]

\* sklearn.model_selection.PredefinedSplit(test_fold): one fold per value of
\* test_fold other than -1; the fold's test set is the positions holding the value,
\* its training set all the other positions
PredefinedSplit(tf) ==
    [f \in Range(tf) \ {-1} |->
        [train |-> {i \in DOMAIN tf : tf[i] # f}, test |-> {i \in DOMAIN tf : tf[i] = f}]]

\* TODO 1: Xtr_dig, Xts_dig, ytr_dig, yts_dig = load_emnist(digits_fn)
LoadDigits ==
    /\ dpc = "todo1"
    /\ LET r == load_emnist(mats.dig)
       IN  IF r = ValueError
           THEN dpc' = "error" /\ UNCHANGED env
           ELSE /\ env' = Bind(env, [Xtr_dig |-> r[1], Xts_dig |-> r[2],
                                     ytr_dig |-> r[3], yts_dig |-> r[4]])
                /\ dpc' = "todo2"
    /\ UNCHANGED <<mats, dlVars>>

\* TODO 2: Xtr_let, Xts_let, ytr_let, yts_let = load_emnist(letters_fn)
LoadLetters ==
    /\ dpc = "todo2"
    /\ LET r == load_emnist(mats.let)
       IN  IF r = ValueError
           THEN dpc' = "error" /\ UNCHANGED env
           ELSE /\ env' = Bind(env, [Xtr_let |-> r[1], Xts_let |-> r[2],
                                     ytr_let |-> r[3], yts_let |-> r[4]])
                /\ dpc' = "todo5"
    /\ UNCHANGED <<mats, dlVars>>

\* TODO 5: the samples with a label in remove_list are removed
RemoveLetters ==
    /\ dpc = "todo5"
    /\ LET Itr == Kept(env.ytr_let)
           Its == Kept(env.yts_let)
       IN  env' = Bind(env, [Xtr_let_rem |-> Take(env.Xtr_let, Itr),
                             ytr_let_rem |-> Take(env.ytr_let, Itr),
                             Xts_let_rem |-> Take(env.Xts_let, Its),
                             yts_let_rem |-> Take(env.yts_let, Its)])
    /\ dpc' = "todo6"
    /\ UNCHANGED <<mats, dlVars>>

\* TODO 6: random sub-samples of the digits and of the remaining letters
SubSample ==
    /\ dpc = "todo6"
    /\ \E Idtr \in Selections(Len(env.Xtr_dig), ntr_dig),
          Idts \in Selections(Len(env.Xts_dig), nts_dig),
          Iltr \in Selections(Len(env.Xtr_let_rem), ntr_let),
          Ilts \in Selections(Len(env.Xts_let_rem), nts_let) :
         env' = Bind(env, [Xtr1_dig |-> Take(env.Xtr_dig, Idtr),
                           ytr1_dig |-> Take(env.ytr_dig, Idtr),
                           Xts1_dig |-> Take(env.Xts_dig, Idts),
                           yts1_dig |-> Take(env.yts_dig, Idts),
                           Xtr1_let |-> Take(env.Xtr_let_rem, Iltr),
                           ytr1_let |-> Take(env.ytr_let_rem, Iltr),
                           Xts1_let |-> Take(env.Xts_let_rem, Ilts),
                           yts1_let |-> Take(env.yts_let_rem, Ilts)])
    /\ dpc' = "todo7"
    /\ UNCHANGED <<mats, dlVars>>

\* TODO 7: the digit and letter arrays are stacked, the letters relabelled
Combine ==
    /\ dpc = "todo7"
    /\ env' = Bind(env, [Xtr |-> vstack(env.Xtr1_dig, env.Xtr1_let),
                         ytr |-> CombineLabels(env.ytr1_dig, env.ytr1_let),
                         Xts |-> vstack(env.Xts1_dig, env.Xts1_let),
                         yts |-> CombineLabels(env.yts1_dig, env.yts1_let)])
    /\ dpc' = "todo8"
    /\ UNCHANGED <<mats, dlVars>>

\* TODO 8: Xtr1 and Xts1, the data rescaled from -1 to 1
RescaleData ==
    /\ dpc = "todo8"
    /\ env' = Bind(env, [Xtr1 |-> Rescale(env.Xtr), Xts1 |-> Rescale(env.Xts)])
    /\ dpc' = "todo17"
    /\ UNCHANGED <<mats, dlVars>>

\* TODO 17: X and y from Xtr1, Xts1, ytr and yts
CombineTrainTest ==
    /\ dpc = "todo17"
    /\ env' = Bind(env, [X |-> vstack(env.Xtr1, env.Xts1), y |-> hstack(env.ytr, env.yts)])
    /\ dpc' = "todo18"
    /\ UNCHANGED <<mats, dlVars>>

\* TODO 18: test_fold and ps = PredefinedSplit(test_fold)
MakeSplit ==
    /\ dpc = "todo18"
    /\ LET tf == TestFold(Len(env.Xtr1), Len(env.Xts1))
       IN  env' = Bind(env, [test_fold |-> tf, ps |-> PredefinedSplit(tf)])
    /\ dpc' = "done"
    /\ UNCHANGED <<mats, dlVars>>

DataIdle ==
    /\ dpc = "off"
    /\ mats = <<>>
    /\ env = <<>>

Init ==
    /\ dirExists \in BOOLEAN
    /\ digitsExists \in BOOLEAN
    /\ lettersExists \in BOOLEAN
    /\ (digitsExists \/ lettersExists) => dirExists
    /\ zip \in {NoFile} \cup {File(<<block_size>>, k) : k \in BOOLEAN}
    /\ files_exists = "unbound"
    /\ pc = "idle"
    /\ header = NoHeader
    /\ body = 0
    /\ total_size = 0
    /\ wrote = 0
    /\ pbar = 0
    /\ out = <<>>
    /\ err = "none"
    /\ fresh = TRUE
    /\ missing0 = FALSE
    /\ branch = "none"
    /\ partial = FALSE
    /\ DataIdle

Next ==
    \/ RunCell
    \/ RestartKernel
    \/ CheckFiles
    \/ TestFiles
    \/ DownloadCall
    \/ StreamChunk
    \/ StreamEnd
    \/ StreamFail
    \/ Unzip

Spec == Init /\ [][Next]_vars

----------------------------------------------------------------------------
(* The data pipeline's specification *)

DownloadIdle ==
    /\ dirExists = TRUE
    /\ digitsExists = TRUE
    /\ lettersExists = TRUE
    /\ zip = NoFile
    /\ files_exists = "True"
    /\ pc = "done"
    /\ header = NoHeader
    /\ body = 0
    /\ total_size = 0
    /\ wrote = 0
    /\ pbar = 0
    /\ out = <<>>
    /\ err = "none"
    /\ fresh = FALSE
    /\ missing0 = FALSE
    /\ branch = "none"
    /\ partial = FALSE

\* where the labels of the digit file and of the letter file start
DigitOffsets == {0, 8}
LetterOffsets == {7, 8, 10, 11, 13, 14, 24}

InitData ==
    /\ DownloadIdle
    /\ dpc = "todo1"
    /\ env = <<>>
    /\ \E od \in DigitOffsets, ol \in LetterOffsets, extra \in {0, 1} :
         mats = [dig |-> MatFile("dig", NDig, NDig, od, extra),
                 let |-> MatFile("let", NLet + 1, NLet + 1, ol, 0)]

NextData ==
    \/ LoadDigits
    \/ LoadLetters
    \/ RemoveLetters
    \/ SubSample
    \/ Combine
    \/ RescaleData
    \/ CombineTrainTest
    \/ MakeSplit

SpecData == InitData /\ [][NextData]_vars


----------------------------------------------------------------------------
(* Properties of the download cell, checked under Spec *)

Printed(msg) == \E i \in DOMAIN out : out[i] = msg

\* the run's environment did not fail: the network delivered and no broken
\* matlab.zip was involved
Benign == err \notin {"RequestException", "BadZipFile"}

\* C1: a run of the download cell in a fresh kernel that starts with at least one
\* of the two .mat files missing completes without an error, having called
\* download_file and extracted matlab.zip. Stated for the runs whose environment
\* did not fail.
C1_FreshKernelDownloads ==
    (fresh /\ missing0 /\ pc \in {"done", "error"} /\ Benign)
        => (pc = "done" /\ branch # "none" /\ Printed(MsgUnzipped))

\* download_file has left its streaming loop and run its check
AfterDownload ==
    branch = "download" /\ pc \in {"unzip", "done", "error"} /\ err # "RequestException"

\* C2: when the destination did not exist, after the streaming loop wrote is the
\* sum of the lengths of the chunks written to the file, and the error message is
\* printed if and only if the content-length header is present, non-zero and
\* different from wrote; with the header absent or 0 no error is reported.
C2_SingleDownloadCheck ==
    AfterDownload =>
        /\ wrote = Sum(zip.chunks)
        /\ Printed(MsgError) <=> (header # NoHeader /\ int(header) # 0 /\ wrote # int(header))
        /\ (header = NoHeader \/ int(header) = 0) => ~Printed(MsgError)

\* C2 happens: a download that wrote bytes and whose check reported the error
C2_Witness ==
    AfterDownload /\ Printed(MsgError) /\ wrote > 0 /\ wrote # int(header)

\* C8: once download_file has left matlab.zip short of content-length (and printed
\* the error), no step changes the file, and every later call of download_file
\* takes the 'already exists' branch.
C8_TruncatedNeverRepaired ==
    [][partial => (zip' = zip /\ partial' /\ (branch' # branch => branch' \in {"none", "exists"}))]_vars

\* C8 happens: a later run called download_file on the truncated file
C8_Witness ==
    partial /\ ~zip.ok /\ branch = "exists" /\ Printed(MsgExists)

----------------------------------------------------------------------------
(* Properties of the data pipeline, checked under SpecData *)

Has(name) == name \in DOMAIN env

\* the label the MATLAB file holds for an image
TrueLabel(img) == Field(mats[img.src], IF img.split = "tr" THEN 0 ELSE 1, 1)[img.k][1]

Alphabet == << "a", "b", "c", "d", "e", "f", "g", "h", "i", "j", "k", "l", "m",
               "n", "o", "p", "q", "r", "s", "t", "u", "v", "w", "x", "y", "z" >>

\* the letter of a label, the labels going from 0 to 25 for a to z
LetterOf(label) == Alphabet[label + 1]

\* C3 as stated: the combined label vectors take exactly two distinct values.
C3_Binary ==
    Has("ytr") => (Cardinality(Range(env.ytr)) = 2 /\ Cardinality(Range(env.yts)) = 2)

LabelsCombined(X, y) ==
    /\ Len(y) = Len(X)
    /\ \A i \in DOMAIN X :
         /\ y[i] \in 0..10
         /\ y[i] = 10 <=> X[i].src = "let"
         /\ X[i].src = "dig" => y[i] = TrueLabel(X[i])

\* C3 as amended: the combined label vectors take their values in 0..10, the value
\* 10 exactly at the letter samples and the digit's own label 0..9 at every digit
\* sample (eleven classes, not two).
C3_ElevenClasses ==
    Has("ytr") => (LabelsCombined(env.Xtr, env.ytr) /\ LabelsCombined(env.Xts, env.yts))

\* C3 happens: a combined training vector holding two digit classes and the letters
C3_Witness ==
    /\ Has("ytr")
    /\ Cardinality(Range(env.ytr)) = 3
    /\ \E i \in DOMAIN env.Xtr : env.Xtr[i].src = "let" /\ TrueLabel(env.Xtr[i]) < 10

LabelsAsClaimed(X, y, ndig, nlet) ==
    /\ Len(X) = ndig + nlet
    /\ Len(y) = Len(X)
    /\ \A i \in DOMAIN X :
         /\ X[i].src = (IF i <= ndig THEN "dig" ELSE "let")
         /\ X[i].src = "dig" => (y[i] = TrueLabel(X[i]) /\ y[i] \in 0..9)
         /\ X[i].src = "let" => y[i] = 11

\* C4: in the combined vectors every digit sample keeps its digit label, every
\* letter sample carries the label 11, and the combined training array is the
\* ntr_dig digits followed by the ntr_let letters, label i belonging to row i.
C4_LetterClassIs11 ==
    Has("ytr") => /\ LabelsAsClaimed(env.Xtr, env.ytr, ntr_dig, ntr_let)
                  /\ LabelsAsClaimed(env.Xts, env.yts, nts_dig, nts_let)

RemovedAsClaimed(X, y, Xrem) ==
    \A i \in DOMAIN X : (X[i] \in Range(Xrem)) <=> (LetterOf(y[i]) \notin {"i", "l", "o"})

\* C5: with the letter labels going from 0 to 25 for a to z, removing the labels
\* of remove_list removes exactly the samples of i, l and o and keeps every sample
\* of the other letters, in the training and in the test letters.
C5_RemovesILO ==
    Has("Xtr_let_rem") => /\ RemovedAsClaimed(env.Xtr_let, env.ytr_let, env.Xtr_let_rem)
                          /\ RemovedAsClaimed(env.Xts_let, env.yts_let, env.Xts_let_rem)

Names(src) ==
    IF src = "dig" THEN << "Xtr_dig", "Xts_dig", "ytr_dig", "yts_dig" >>
    ELSE << "Xtr_let", "Xts_let", "ytr_let", "yts_let" >>

SplitLoaded(X, y, mat, k, split) ==
    /\ X = Field(mat, k, 0)
    /\ Len(y) = Len(X)
    /\ \A i \in DOMAIN X : /\ X[i].split = split
                           /\ y[i] \in Int
                           /\ y[i] = TrueLabel(X[i])

\* C6: the four values load_emnist returns are, in this order, the training
\* images, the test images, the training labels and the test labels; the labels
\* are flat integer vectors as long as their image matrix has rows.
C6_LoadOrder ==
    \A src \in {"dig", "let"} :
        Has(Names(src)[1]) =>
            /\ SplitLoaded(env[Names(src)[1]], env[Names(src)[3]], mats[src], 0, "tr")
            /\ SplitLoaded(env[Names(src)[2]], env[Names(src)[4]], mats[src], 1, "ts")

\* C6 happens: both files are loaded
C6_Witness ==
    /\ Has("Xtr_dig") /\ Has("Xtr_let")
    /\ Len(env.ytr_dig) > 0 /\ Len(env.yts_let) > 0
    /\ env.ytr_let # env.yts_let

\* C7: test_fold is -1 at every training sample of X and 0 at every test sample;
\* the predefined split has exactly one fold, whose test set is the test samples
\* and whose training set is the training samples.
C7_PredefinedSplit ==
    Has("ps") =>
        /\ Len(env.test_fold) = Len(env.X)
        /\ \A i \in DOMAIN env.X :
             env.test_fold[i] = (IF env.X[i].split = "tr" THEN -1 ELSE 0)
        /\ DOMAIN env.ps = {0}
        /\ env.ps[0].test = {i \in DOMAIN env.X : env.X[i].split = "ts"}
        /\ env.ps[0].train = {i \in DOMAIN env.X : env.X[i].split = "tr"}

\* C7 happens: the split is built over training and test samples
C7_Witness ==
    /\ Has("ps")
    /\ \E i, j \in DOMAIN env.X : env.X[i].split = "tr" /\ env.X[j].split = "ts"
    /\ env.ps[0].test # {}

====
